---- MODULE Spec2Model ----
(***************************************************************************)
(* The synchronization client of the voice-assistant dashboard             *)
(* (src/app.js, class VoiceAssistantUI): its view state, its two polling   *)
(* timers, its user actions and the continuations of its fetches.          *)
(*                                                                         *)
(* JavaScript runs one handler at a time; an async method runs atomically  *)
(* from one await to the next.  Every action below is one such run: the    *)
(* synchronous prefix of a method up to its fetch, or the continuation     *)
(* that runs when the fetch settles.  A fetch in flight is an element of   *)
(* the sequence inflight, kept in the order the requests were issued.      *)
(* The server (not part of src/) is modelled from the interface the        *)
(* documentation gives: it serves a request at some time between its       *)
(* issue and the delivery of the response.                                 *)
(***************************************************************************)
EXTENDS Integers, Sequences, FiniteSets, TLC

VARIABLES
    isAssistantActive,    \* this.isAssistantActive
    devices,              \* this.devices
    events,               \* this.events
    startBtn,             \* this.startBtn.disabled
    stopBtn,              \* this.stopBtn.disabled
    testBtn,              \* this.testBtn.disabled
    icon,                 \* className of the <i> of the three buttons
    statusIndicator,      \* [className, text] of the status indicator
    testCommandInput,     \* this.testCommandInput.value, a sequence of characters
    locationFilter,       \* [options, value] of the location <select>
    typeFilter,           \* [options, value] of the device type <select>
    eventFilter,          \* value of the event type <select>
    devicesGrid,          \* children of this.devicesGrid
    activityLog,          \* children of this.activityLog
    transcriptionDisplay, \* children of this.transcriptionDisplay
    deviceModal,          \* id of the device the details modal shows, "" when hidden
    addDeviceModal,       \* the add-device modal has class show
    notifications,        \* notification elements in document.body
    eventRefresh,         \* pending setTimeout(() => this.loadEvents(), 500)
    inflight,             \* fetches that have not settled, in issue order
    serverActive,         \* server: the engine runs
    serverListening,      \* server: the engine listens
    serverDevices,        \* server: the device registry, in insertion order
    serverEvents,         \* server: the event log
    last                  \* history: what the most recent handler run did

view == <<isAssistantActive, devices, events, startBtn, stopBtn, testBtn, icon,
          statusIndicator, testCommandInput, locationFilter, typeFilter,
          eventFilter, devicesGrid, activityLog, transcriptionDisplay,
          deviceModal, addDeviceModal, notifications, eventRefresh>>
server == <<serverActive, serverListening, serverDevices, serverEvents>>
vars == <<view, inflight, server, last>>

(***************************************************************************)
(* Bounds of the model.                                                    *)
(***************************************************************************)
MaxInFlight == 2        \* fetches in flight at once
MaxNotifications == 1   \* notification elements on the page at once
MaxLog == 12            \* events in a long log of the server

(***************************************************************************)
(* Values.                                                                 *)
(***************************************************************************)
\* The devices a user of this model can enter in the add-device form.
DeviceForms ==
    { [id |-> "dev1", name |-> "Lamp", device_type |-> "light", location |-> "Bedroom"],
      [id |-> "dev2", name |-> "Fan", device_type |-> "fan", location |-> "Kitchen"] }
DeviceIds == { f.id : f \in DeviceForms }
ControlActions == {"turn_on", "turn_off"}

\* The events the server can append.
EventUniverse ==
    { [type |-> "transcription_partial", message |-> "turn", timestamp |-> 1],
      [type |-> "transcription_final", message |-> "turn on", timestamp |-> 2],
      [type |-> "command_result", message |-> "done", timestamp |-> 3] }
EventTypes == { e.type : e \in EventUniverse }
EventOf(type) == CHOOSE e \in EventUniverse : e.type = type

\* The logs the server can hold: the log changes by appends, by the eviction
\* of its oldest events and by clears, so that one of these follows another.
EventLogs ==
    { <<>>,
      <<EventOf("command_result")>>,
      <<EventOf("transcription_partial"), EventOf("command_result"),
        EventOf("transcription_final")>> }

\* Texts a user can have in the test-command input.
CommandTexts == { <<>>, <<" ">>, <<" ", "o", "n", " ">> }

Range(s) == { s[i] : i \in 1..Len(s) }

RECURSIVE SeqFilter(_, _)
\* Array.prototype.filter, with the predicate given as the set of kept values
SeqFilter(s, keep) ==
    IF s = <<>> THEN <<>>
    ELSE IF Head(s) \in keep THEN <<Head(s)>> \o SeqFilter(Tail(s), keep)
    ELSE SeqFilter(Tail(s), keep)

RECURSIVE Distinct(_)
\* [...new Set(s)]: the distinct values of s in order of first occurrence
Distinct(s) ==
    IF s = <<>> THEN <<>>
    ELSE LET rest == Distinct(SeqFilter(Tail(s), Range(Tail(s)) \ {Head(s)}))
         IN <<Head(s)>> \o rest

\* Array.prototype.slice(-n)
SliceLast(s, n) ==
    IF Len(s) <= n THEN s ELSE SubSeq(s, Len(s) - n + 1, Len(s))

RemoveAt(s, i) == SubSeq(s, 1, i - 1) \o SubSeq(s, i + 1, Len(s))

RECURSIVE TrimStart(_)
TrimStart(s) == IF s # <<>> /\ Head(s) = " " THEN TrimStart(Tail(s)) ELSE s
RECURSIVE TrimEnd(_)
TrimEnd(s) ==
    IF s # <<>> /\ s[Len(s)] = " " THEN TrimEnd(SubSeq(s, 1, Len(s) - 1)) ELSE s

\* A variant that leaves the text as it is.
TrimNone(s) == s

\* String.prototype.trim
Trim(s) == TrimEnd(TrimStart(s))

(***************************************************************************)
(* Rendering and the other pure functions of the client.  An element is    *)
(* modelled by the values its template interpolates.                       *)
(***************************************************************************)
\* getDeviceControls: the one button of a card, named by the action it sends
getDeviceControls(device) ==
    IF device.status = "off" THEN "turn_on" ELSE "turn_off"

\* A variant that filters by device type only.
getFilteredDevicesByType(devs, locationValue, typeValue) ==
    IF typeValue # ""
    THEN SeqFilter(devs, { d \in Range(devs) : d.device_type = typeValue })
    ELSE devs

getFilteredDevices(devs, locationValue, typeValue) ==
    LET byLocation ==
            IF locationValue # ""
            THEN SeqFilter(devs, { d \in Range(devs) : d.location = locationValue })
            ELSE devs
    IN  IF typeValue # ""
        THEN SeqFilter(byLocation,
                       { d \in Range(byLocation) : d.device_type = typeValue })
        ELSE byLocation

NoDevices ==
    [class |-> "no-devices", id |-> "", name |-> "No devices found",
     device_type |-> "", status |-> "", location |-> "", control |-> ""]

DeviceCard(device) ==
    [class |-> "device-card", id |-> device.id, name |-> device.name,
     device_type |-> device.device_type, status |-> device.status,
     location |-> device.location, control |-> getDeviceControls(device)]

\* renderDevices: the new children of devicesGrid
renderDevices(devs, locationValue, typeValue) ==
    LET filteredDevices == getFilteredDevices(devs, locationValue, typeValue)
    IN  IF Len(filteredDevices) = 0
        THEN <<NoDevices>>
        ELSE [i \in 1..Len(filteredDevices) |-> DeviceCard(filteredDevices[i])]

\* Assigning innerHTML of a <select> replaces its options; none of the new
\* options carries the selected attribute, so the first one becomes selected.
SelectWithOptions(values) ==
    [options |-> <<"">> \o values, value |-> ""]

\* updateFilters: the two selects after the call, as <<location, type>>
updateFilters(devs) ==
    LET locations == Distinct([i \in 1..Len(devs) |-> devs[i].location])
        types == Distinct([i \in 1..Len(devs) |-> devs[i].device_type])
    IN  <<SelectWithOptions(locations), SelectWithOptions(types)>>

getFilteredEvents(evs, filter) ==
    IF filter = "" THEN evs
    ELSE SeqFilter(evs, { e \in Range(evs) : e.type = filter })

NoEvents ==
    [class |-> "no-events", type |-> "", timestamp |-> 0, message |-> "No events found"]

\* new Date(timestamp * 1000): the instant shown, in milliseconds
DateOf(timestamp) == timestamp * 1000

ActivityItem(event) ==
    [class |-> "activity-item", type |-> event.type,
     timestamp |-> DateOf(event.timestamp), message |-> event.message]

\* A variant that renders the newest event first.
renderEventsNewestFirst(evs, filter) ==
    LET filteredEvents == getFilteredEvents(evs, filter)
        n == Len(filteredEvents)
    IN  IF n = 0
        THEN <<NoEvents>>
        ELSE [i \in 1..n |-> ActivityItem(filteredEvents[n + 1 - i])]

\* renderEvents: the new children of activityLog
renderEvents(evs, filter) ==
    LET filteredEvents == getFilteredEvents(evs, filter)
    IN  IF Len(filteredEvents) = 0
        THEN <<NoEvents>>
        ELSE [i \in 1..Len(filteredEvents) |-> ActivityItem(filteredEvents[i])]

TranscriptionShown == 10

TranscriptionTypes == {"transcription_final", "transcription_partial"}

Placeholder(iconClass, text) ==
    [class |-> "placeholder", icon |-> iconClass, timestamp |-> 0, text |-> text]

TranscriptionItem(event) ==
    [class |-> IF event.type = "transcription_partial"
               THEN "transcription-item partial" ELSE "transcription-item ",
     icon |-> "", timestamp |-> DateOf(event.timestamp), text |-> event.message]

\* The k-th event of a long log: speech only, or speech with a command
\* result at every third place.
LongEvent(k, mixed) ==
    LET type == IF mixed /\ k % 3 = 0 THEN "command_result"
                ELSE IF k % 2 = 0 THEN "transcription_final"
                ELSE "transcription_partial"
    IN  [type |-> type, message |-> EventOf(type).message, timestamp |-> k]

\* Logs around the number of transcriptions the view shows.
LongLogs ==
    { [k \in 1..n |-> LongEvent(k, mixed)] :
        n \in {0, 1, TranscriptionShown, MaxLog}, mixed \in BOOLEAN }

\* A variant that shows the first transcriptions instead of the last.
updateTranscriptionFirst(evs, active) ==
    LET transcriptionEvents ==
            SeqFilter(evs, { e \in Range(evs) : e.type \in TranscriptionTypes })
        shown == SubSeq(transcriptionEvents, 1,
                        IF Len(transcriptionEvents) < TranscriptionShown
                        THEN Len(transcriptionEvents) ELSE TranscriptionShown)
    IN  IF Len(transcriptionEvents) = 0
        THEN <<Placeholder("fas fa-microphone", "Waiting for voice input...")>>
        ELSE [i \in 1..Len(shown) |-> TranscriptionItem(shown[i])]

\* updateTranscription: the new children of transcriptionDisplay
updateTranscription(evs, active) ==
    LET transcriptionEvents ==
            SeqFilter(evs, { e \in Range(evs) : e.type \in TranscriptionTypes })
        shown == SliceLast(transcriptionEvents, TranscriptionShown)
    IN  IF Len(transcriptionEvents) = 0
        THEN IF ~active
             THEN <<Placeholder("fas fa-microphone-slash",
                    "Voice assistant is not active. Start the assistant to see transcriptions.")>>
             ELSE <<Placeholder("fas fa-microphone", "Waiting for voice input...")>>
        ELSE [i \in 1..Len(shown) |-> TranscriptionItem(shown[i])]

\* clearTranscription: the new children of transcriptionDisplay
clearTranscription(active) ==
    <<Placeholder("fas fa-microphone",
        IF active THEN "Transcription cleared. Waiting for voice input..."
        ELSE "Transcription cleared. Start the assistant to see transcriptions.")>>

\* updateStatus
\* A variant that writes the name of the class as the text.
updateStatusClassAsText(status, text) ==
    [className |-> status, text |-> status]

updateStatus(status, text) ==
    [className |-> status, text |-> text]

getNotificationIcon(type) ==
    CASE type = "success" -> "fa-check-circle"
      [] type = "error" -> "fa-exclamation-circle"
      [] type = "warning" -> "fa-exclamation-triangle"
      [] OTHER -> "fa-info-circle"

\* showNotification: document.body's notifications after the call.  An
\* element is modelled by its type, which gives its class and its icon, and
\* by the timers it has seen: it waits for the first (100 ms) in phase
\* "added".  Its text is recorded in last.
showNotification(shown, message, type) ==
    Append(shown, [type |-> type, icon |-> getNotificationIcon(type),
                   phase |-> "added"])

OriginalIcon ==
    [start |-> "fas fa-play", stop |-> "fas fa-stop", test |-> "fas fa-play-circle"]

\* setLoading: <<disabled, icon class>> of the button after the call
setLoading(button, loading) ==
    IF loading THEN <<TRUE, "fas fa-spinner fa-spin">>
    ELSE <<FALSE, OriginalIcon[button]>>

(***************************************************************************)
(* Fetches in flight.                                                      *)
(*   kind    the endpoint: "status", "events", "devices", "start", "stop", *)
(*           "test", "add", "remove", "control", "clear"                   *)
(*   arg     the device id or the command text                             *)
(*   action  the action of a control request ("turn_on", ...)              *)
(*   parent  who awaits the method that issued it: "initial"               *)
(*           (loadInitialData), "timer", "refresh", "test", or the user    *)
(*           action "control", "add", "remove"; the action's own name for  *)
(*           the request of a user action                                  *)
(*   notes   notifications the awaiting user action has shown so far       *)
(*   served, body   the response, once the server has served the request   *)
(*   superseded   history: a request of the same collection issued later   *)
(*           has already been handled with success                         *)
(*   stable  history, of a status request: the server's active state has   *)
(*           not changed since the request was issued                      *)
(***************************************************************************)
NoBody ==
    [is_active |-> FALSE, is_listening |-> FALSE, events |-> <<>>,
     devices |-> <<>>, message |-> ""]

Req(kind, arg, action, parent, notes) ==
    [kind |-> kind, arg |-> arg, action |-> action, parent |-> parent,
     notes |-> notes, served |-> FALSE, body |-> NoBody,
     superseded |-> FALSE, stable |-> TRUE]

UserActions == {"start", "stop", "test", "add", "remove", "control"}

\* The collection of the view a successful response writes.
Collection(kind) ==
    CASE kind \in {"status", "start", "stop"} -> "status"
      [] kind = "events" -> "events"
      [] kind = "devices" -> "devices"
      [] OTHER -> "none"

\* Room for one more fetch (a pending refresh timer will become one).
CanFetch == Len(inflight) + eventRefresh < MaxInFlight
CanNotify == Len(notifications) < MaxNotifications

\* inflight after request i has settled; ok: its response was applied
Settled(i, ok) ==
    LET marked ==
            [j \in 1..Len(inflight) |->
                IF ok /\ j < i
                   /\ Collection(inflight[j].kind) = Collection(inflight[i].kind)
                   /\ Collection(inflight[i].kind) # "none"
                THEN [inflight[j] EXCEPT !.superseded = TRUE]
                ELSE inflight[j]]
    IN  RemoveAt(marked, i)

\* What one run of a handler did: the method, how it ended, the type of the
\* notification it showed ("" for none), and, when the run completed a
\* user action, that action and the notifications it produced in all.
Did(op, outcome, shown, action, notes) ==
    [op |-> op, outcome |-> outcome, shown |-> shown, message |-> "",
     action |-> action, notes |-> notes, info |-> ""]

\* The same, with the text of the notification shown.
DidNotify(op, outcome, notice, action, notes) ==
    [Did(op, outcome, notice[2], action, notes) EXCEPT !.message = notice[1]]

(***************************************************************************)
(* The server, from the interface of sections 4.2, 4.3 and 6.              *)
(***************************************************************************)
EventLimit == 50

HasDevice(registry, id) == \E k \in 1..Len(registry) : registry[k].id = id

FormOf(id) == CHOOSE f \in DeviceForms : f.id = id

NewDevice(id) ==
    [id |-> id, name |-> FormOf(id).name, device_type |-> FormOf(id).device_type,
     location |-> FormOf(id).location, status |-> "off"]

AddTo(registry, id) == Append(registry, NewDevice(id))
RemoveFrom(registry, id) ==
    SeqFilter(registry, { d \in Range(registry) : d.id # id })
Controlled(registry, id, action) ==
    [k \in 1..Len(registry) |->
        IF registry[k].id = id
        THEN [registry[k] EXCEPT !.status = IF action = "turn_on" THEN "on" ELSE "off"]
        ELSE registry[k]]

\* The logs that can follow log when a command result is appended.
Logged(log) ==
    { l \in EventLogs : l # log /\ l # <<>> /\ EventOf("command_result") \in Range(l) }

\* The request is acceptable to the server in its present state.
Acceptable(r) ==
    CASE r.kind = "start" -> ~serverActive
      [] r.kind = "stop" -> serverActive
      [] r.kind = "add" -> ~HasDevice(serverDevices, r.arg)
      [] r.kind \in {"remove", "control"} -> HasDevice(serverDevices, r.arg)
      [] OTHER -> TRUE

SetActive(requests, active) ==
    [j \in 1..Len(requests) |->
        IF active # serverActive /\ requests[j].kind = "status"
        THEN [requests[j] EXCEPT !.stable = FALSE]
        ELSE requests[j]]

\* The server serves request i with success.
Serve(i) ==
    LET r == inflight[i]
        body ==
            CASE r.kind = "status" ->
                    [NoBody EXCEPT !.is_active = serverActive,
                                   !.is_listening = serverListening]
              [] r.kind = "events" ->
                    [NoBody EXCEPT !.events = SliceLast(serverEvents, EventLimit)]
              [] r.kind = "devices" -> [NoBody EXCEPT !.devices = serverDevices]
              [] OTHER -> [NoBody EXCEPT !.message = "ok"]
        active ==
            CASE r.kind = "start" -> TRUE
              [] r.kind = "stop" -> FALSE
              [] OTHER -> serverActive
    IN  /\ ~r.served
        /\ Acceptable(r)
        /\ serverActive' = active
        /\ serverListening' = (IF r.kind \in {"start", "stop"} THEN FALSE
                               ELSE serverListening)
        /\ serverDevices' =
            (CASE r.kind = "add" -> AddTo(serverDevices, r.arg)
               [] r.kind = "remove" -> RemoveFrom(serverDevices, r.arg)
               [] r.kind = "control" -> Controlled(serverDevices, r.arg, r.action)
               [] OTHER -> serverDevices)
        /\ serverEvents' \in
            (CASE r.kind = "test" -> Logged(serverEvents)
               [] r.kind = "clear" -> {<<>>}
               [] OTHER -> {serverEvents})
        /\ inflight' = [SetActive(inflight, active) EXCEPT
                            ![i].served = TRUE, ![i].body = body]
        /\ UNCHANGED <<view, last>>

\* The engine or another client changes the assistant's state.
EngineChanges ==
    \E active \in BOOLEAN, listening \in BOOLEAN :
        /\ listening => active
        /\ <<active, listening>> # <<serverActive, serverListening>>
        /\ serverActive' = active
        /\ serverListening' = listening
        /\ inflight' = SetActive(inflight, active)
        /\ UNCHANGED <<view, serverDevices, serverEvents, last>>

\* The engine or another client changes the log.
EngineLogs ==
    \E log \in EventLogs :
        /\ log # serverEvents
        /\ serverEvents' = log
        /\ UNCHANGED <<view, inflight, serverActive, serverListening, serverDevices, last>>

\* The engine has appended to the log, which has evicted or not.
EngineLogsLong ==
    \E log \in LongLogs :
        /\ log # serverEvents
        /\ serverEvents' = log
        /\ UNCHANGED <<view, inflight, serverActive, serverListening, serverDevices, last>>

\* Another client adds, removes or controls a device.
OtherClient(id, action) ==
    /\ IF action = "add" THEN ~HasDevice(serverDevices, id)
                         ELSE HasDevice(serverDevices, id)
    /\ serverDevices' =
        (CASE action = "add" -> AddTo(serverDevices, id)
           [] action = "remove" -> RemoveFrom(serverDevices, id)
           [] OTHER -> Controlled(serverDevices, id, action))
    /\ serverDevices' # serverDevices
    /\ UNCHANGED <<view, inflight, serverActive, serverListening, serverEvents, last>>

(***************************************************************************)
(* The state after the constructor: the fields it sets, the page as its    *)
(* markup gives it, both timers armed, and loadInitialData suspended in    *)
(* its first fetch.                                                        *)
(***************************************************************************)
Constructed ==
    /\ isAssistantActive = FALSE
    /\ devices = <<>>
    /\ events = <<>>
    /\ startBtn = FALSE
    /\ stopBtn \in BOOLEAN
    /\ testBtn = FALSE
    /\ icon = OriginalIcon
    /\ statusIndicator = updateStatus("offline", "Offline")
    /\ testCommandInput = <<>>
    /\ locationFilter = SelectWithOptions(<<>>)
    /\ typeFilter = SelectWithOptions(<<>>)
    /\ eventFilter = ""
    /\ devicesGrid = <<>>
    /\ activityLog = <<>>
    /\ transcriptionDisplay = <<>>
    /\ deviceModal = ""
    /\ addDeviceModal = FALSE
    /\ notifications = <<>>
    /\ eventRefresh = 0
    /\ inflight = <<Req("devices", "", "", "initial", 0)>>
    /\ last = Did("constructor", "issued", "", "", 0)

Init ==
    /\ Constructed
    /\ serverActive = FALSE
    /\ serverListening = FALSE
    /\ serverDevices = <<NewDevice("dev1"), NewDevice("dev2")>>
    /\ serverEvents = <<>>

(***************************************************************************)
(* Frames.                                                                 *)
(***************************************************************************)
statusSide == <<isAssistantActive, statusIndicator>>
deviceSide == <<devices, locationFilter, typeFilter, devicesGrid>>
eventSide == <<events, activityLog, transcriptionDisplay>>
buttons == <<startBtn, stopBtn, testBtn, icon>>
modals == <<deviceModal, addDeviceModal>>

\* How a fetch can settle: the response is applied, the response says
\* success: false, or the fetch (or response.json()) throws.
Outcomes == {"ok", "rejected", "failed"}
CanSettle(r, outcome) ==
    CASE outcome = "ok" -> r.served
      [] outcome = "rejected" -> ~r.served
      [] OTHER -> TRUE

\* The body of the response that settles the fetch.  A refusal leaves the
\* server as it is: it is produced when it is delivered.
Response(r, outcome) ==
    IF outcome = "rejected" THEN [NoBody EXCEPT !.message = "refused"] ELSE r.body

(***************************************************************************)
(* The polling timers (startEventPolling).                                 *)
(***************************************************************************)
\* A variant that polls whether or not the assistant is active.
eventTimerAlways == TRUE

\* The condition under which a tick of the event timer calls loadEvents.
eventTimerPolls == isAssistantActive

eventTimer ==
    /\ eventTimerPolls => CanFetch
    /\ inflight' = IF eventTimerPolls
                   THEN Append(inflight, Req("events", "", "", "timer", 0))
                   ELSE inflight
    /\ last' = Did("eventTimer", IF eventTimerPolls THEN "issued" ELSE "skipped",
                   "", "", 0)
    /\ UNCHANGED <<view, server>>

statusTimer ==
    /\ CanFetch
    /\ inflight' = Append(inflight, Req("status", "", "", "timer", 0))
    /\ last' = Did("statusTimer", "issued", "", "", 0)
    /\ UNCHANGED <<view, server>>

(***************************************************************************)
(* checkAssistantStatus, from the response on.                             *)
(***************************************************************************)
\* A variant that never takes the flag back.
activeAfterStatusSticky(r, outcome) ==
    IF outcome = "ok" THEN isAssistantActive \/ r.body.is_active ELSE isAssistantActive

\* isAssistantActive after a status fetch has settled
activeAfterStatus(r, outcome) ==
    IF outcome = "ok" THEN r.body.is_active ELSE isAssistantActive

checkAssistantStatusSettled(i, outcome) ==
        LET r == inflight[i]
            status == r.body
        IN  /\ r.kind = "status"
            /\ CanSettle(r, outcome)
            /\ isAssistantActive' = activeAfterStatus(r, outcome)
            /\ statusIndicator' =
                (IF outcome # "ok" THEN statusIndicator
                 ELSE IF status.is_active
                      THEN IF status.is_listening
                           THEN updateStatus("listening", "Listening...")
                           ELSE updateStatus("active", "Active")
                      ELSE updateStatus("offline", "Offline"))
            /\ startBtn' = (IF outcome = "ok" THEN status.is_active ELSE startBtn)
            /\ stopBtn' = (IF outcome = "ok" THEN ~status.is_active ELSE stopBtn)
            /\ inflight' = Settled(i, outcome = "ok")
            /\ last' = [Did("checkAssistantStatus", outcome, "", "", 0) EXCEPT
                            !.info = IF r.stable /\ isAssistantActive # serverActive
                                     THEN "drift" ELSE r.parent]
            /\ UNCHANGED <<deviceSide, eventSide, testBtn, icon, testCommandInput,
                           eventFilter, modals, notifications, eventRefresh, server>>

(***************************************************************************)
(* loadEvents, from the response on.  When loadInitialData awaits it, the  *)
(* settling run goes on into checkAssistantStatus up to its fetch.         *)
(***************************************************************************)
\* A variant that appends the fetched events to the ones it holds.
eventsAfterLoadAppended(r, outcome) ==
    IF outcome = "ok" THEN events \o r.body.events ELSE events

\* this.events after an events fetch has settled
eventsAfterLoad(r, outcome) ==
    IF outcome = "ok" THEN r.body.events ELSE events

loadEventsSettled(i, outcome) ==
        LET r == inflight[i]
        IN  /\ r.kind = "events"
            /\ CanSettle(r, outcome)
            /\ events' = eventsAfterLoad(r, outcome)
            /\ activityLog' = (IF outcome = "ok" THEN renderEvents(events', eventFilter)
                               ELSE activityLog)
            /\ transcriptionDisplay' =
                (IF outcome = "ok" THEN updateTranscription(events', isAssistantActive)
                 ELSE transcriptionDisplay)
            /\ inflight' = (IF r.parent = "initial"
                            THEN Append(Settled(i, outcome = "ok"),
                                        Req("status", "", "", "initial", 0))
                            ELSE Settled(i, outcome = "ok"))
            /\ last' = [Did("loadEvents", outcome, "", "", 0) EXCEPT !.info = r.parent]
            /\ UNCHANGED <<statusSide, deviceSide, buttons, testCommandInput,
                           eventFilter, modals, notifications, eventRefresh, server>>

(***************************************************************************)
(* loadDevices: the refresh button, and from the response on.  When        *)
(* loadInitialData awaits it, the settling run goes on into loadEvents up  *)
(* to its fetch; when a user action awaits it, the action completes.       *)
(***************************************************************************)
loadDevices ==
    /\ CanFetch
    /\ inflight' = Append(inflight, Req("devices", "", "", "refresh", 0))
    /\ last' = Did("loadDevices", "issued", "", "", 0)
    /\ UNCHANGED <<view, server>>

\* A variant that drops the list when the fetch fails.
devicesAfterLoadCleared(r, outcome) ==
    IF outcome = "ok" THEN r.body.devices ELSE <<>>

\* A variant that adds the fetched records to the ones it holds.
devicesAfterLoadAppended(r, outcome) ==
    IF outcome = "ok" THEN devices \o r.body.devices ELSE devices

\* this.devices after a device-list fetch has settled
devicesAfterLoad(r, outcome) ==
    IF outcome = "ok" THEN r.body.devices ELSE devices

\* The type of the notification loadDevices shows, "" for none
loadDevicesNotifies(outcome) ==
    IF outcome = "failed" THEN "error" ELSE ""

loadDevicesSettled(i, outcome) ==
        LET r == inflight[i]
            shown == loadDevicesNotifies(outcome)
            \* renderDevices() runs before updateFilters()
            rendered == renderDevices(devices', locationFilter.value, typeFilter.value)
            filters == updateFilters(devices')
        IN  /\ r.kind = "devices"
            /\ CanSettle(r, outcome)
            /\ shown # "" => CanNotify
            /\ devices' = devicesAfterLoad(r, outcome)
            /\ devicesGrid' = (IF outcome = "ok" THEN rendered ELSE devicesGrid)
            /\ locationFilter' = (IF outcome = "ok" THEN filters[1] ELSE locationFilter)
            /\ typeFilter' = (IF outcome = "ok" THEN filters[2] ELSE typeFilter)
            /\ notifications' =
                (IF shown # ""
                 THEN showNotification(notifications, "Failed to load devices", shown)
                 ELSE notifications)
            /\ inflight' = (IF r.parent = "initial"
                            THEN Append(Settled(i, outcome = "ok"),
                                        Req("events", "", "", "initial", 0))
                            ELSE Settled(i, outcome = "ok"))
            /\ last' = [Did("loadDevices", outcome, shown,
                            IF r.parent \in UserActions THEN r.parent ELSE "",
                            IF r.parent \in UserActions
                            THEN r.notes + (IF shown # "" THEN 1 ELSE 0) ELSE 0)
                        EXCEPT !.info = r.parent,
                               !.message = IF shown # "" THEN "Failed to load devices"
                                           ELSE ""]
            /\ UNCHANGED <<statusSide, eventSide, buttons, testCommandInput,
                           eventFilter, modals, eventRefresh, server>>

(***************************************************************************)
(* startAssistant and stopAssistant.                                       *)
(***************************************************************************)
startAssistant ==
    /\ ~startBtn
    /\ CanFetch
    /\ startBtn' = setLoading("start", TRUE)[1]
    /\ icon' = [icon EXCEPT !.start = setLoading("start", TRUE)[2]]
    /\ inflight' = Append(inflight, Req("start", "", "", "start", 0))
    /\ last' = Did("startAssistant", "issued", "", "", 0)
    /\ UNCHANGED <<statusSide, deviceSide, eventSide, stopBtn, testBtn,
                   testCommandInput, eventFilter, modals, notifications,
                   eventRefresh, server>>

\* A variant that shows its own text for a refusal as well.
ActionNoticeGeneric(r, outcome, okMessage, okType, failMessage) ==
    IF outcome = "ok" THEN <<okMessage, okType>> ELSE <<failMessage, "error">>

\* The message and type of the notification an action shows when its own
\* fetch has settled
ActionNotice(r, outcome, okMessage, okType, failMessage) ==
    CASE outcome = "ok" -> <<okMessage, okType>>
      [] outcome = "rejected" -> <<Response(r, outcome).message, "error">>
      [] OTHER -> <<failMessage, "error">>

startAssistantSettled(i, outcome) ==
        LET r == inflight[i]
            notice == ActionNotice(r, outcome, "Voice assistant started successfully",
                                   "success", "Failed to start voice assistant")
        IN  /\ r.kind = "start"
            /\ CanSettle(r, outcome)
            /\ CanNotify
            /\ isAssistantActive' = (IF outcome = "ok" THEN TRUE ELSE isAssistantActive)
            /\ statusIndicator' =
                (IF outcome = "ok" THEN updateStatus("active", "Voice assistant started")
                 ELSE statusIndicator)
            \* the finally block runs after the assignment of line 133
            /\ startBtn' = setLoading("start", FALSE)[1]
            /\ stopBtn' = (IF outcome = "ok" THEN FALSE ELSE stopBtn)
            /\ icon' = [icon EXCEPT !.start = setLoading("start", FALSE)[2]]
            /\ notifications' = showNotification(notifications, notice[1], notice[2])
            /\ inflight' = Settled(i, outcome = "ok")
            /\ last' = DidNotify("startAssistant", outcome, notice, "start", 1)
            /\ UNCHANGED <<deviceSide, eventSide, testBtn, testCommandInput,
                           eventFilter, modals, eventRefresh, server>>

stopAssistant ==
    /\ ~stopBtn
    /\ CanFetch
    /\ stopBtn' = setLoading("stop", TRUE)[1]
    /\ icon' = [icon EXCEPT !.stop = setLoading("stop", TRUE)[2]]
    /\ inflight' = Append(inflight, Req("stop", "", "", "stop", 0))
    /\ last' = Did("stopAssistant", "issued", "", "", 0)
    /\ UNCHANGED <<statusSide, deviceSide, eventSide, startBtn, testBtn,
                   testCommandInput, eventFilter, modals, notifications,
                   eventRefresh, server>>

stopAssistantSettled(i, outcome) ==
        LET r == inflight[i]
            notice == ActionNotice(r, outcome, "Voice assistant stopped", "info",
                                   "Failed to stop voice assistant")
        IN  /\ r.kind = "stop"
            /\ CanSettle(r, outcome)
            /\ CanNotify
            /\ isAssistantActive' = (IF outcome = "ok" THEN FALSE ELSE isAssistantActive)
            /\ statusIndicator' =
                (IF outcome = "ok" THEN updateStatus("offline", "Voice assistant stopped")
                 ELSE statusIndicator)
            /\ startBtn' = (IF outcome = "ok" THEN FALSE ELSE startBtn)
            \* the finally block runs after the assignment of line 161
            /\ stopBtn' = setLoading("stop", FALSE)[1]
            /\ icon' = [icon EXCEPT !.stop = setLoading("stop", FALSE)[2]]
            /\ notifications' = showNotification(notifications, notice[1], notice[2])
            /\ inflight' = Settled(i, outcome = "ok")
            /\ last' = DidNotify("stopAssistant", outcome, notice, "stop", 1)
            /\ UNCHANGED <<deviceSide, eventSide, testBtn, testCommandInput,
                           eventFilter, modals, eventRefresh, server>>

(***************************************************************************)
(* testCommand: by a click on the test button or by Enter in the input.    *)
(***************************************************************************)
typeCommand(text) ==
    /\ text # testCommandInput
    /\ testCommandInput' = text
    /\ UNCHANGED <<statusSide, deviceSide, eventSide, buttons, eventFilter, modals,
                   notifications, eventRefresh, inflight, server, last>>

testCommand(via) ==
    LET command == Trim(testCommandInput)
    IN  /\ via = "click" => ~testBtn
        /\ IF command = <<>>
           THEN /\ CanNotify
                /\ notifications' = showNotification(notifications,
                                        "Please enter a command to test", "warning")
                /\ last' = DidNotify("testCommand", "invalid",
                                     <<"Please enter a command to test", "warning">>,
                                     "test", 1)
                /\ UNCHANGED <<testBtn, icon, inflight>>
           ELSE /\ CanFetch
                /\ testBtn' = setLoading("test", TRUE)[1]
                /\ icon' = [icon EXCEPT !.test = setLoading("test", TRUE)[2]]
                /\ inflight' = Append(inflight, Req("test", command, "", "test", 0))
                /\ last' = Did("testCommand", "issued", "", "", 0)
                /\ UNCHANGED notifications
        /\ UNCHANGED <<statusSide, deviceSide, eventSide, startBtn, stopBtn,
                       testCommandInput, eventFilter, modals, eventRefresh, server>>

testCommandSettled(i, outcome) ==
        LET r == inflight[i]
            notice == ActionNotice(r, outcome, "Command processed successfully",
                                   "success", "Failed to test command")
        IN  /\ r.kind = "test"
            /\ CanSettle(r, outcome)
            /\ CanNotify
            /\ notifications' = showNotification(notifications, notice[1], notice[2])
            /\ testCommandInput' = (IF outcome = "ok" THEN <<>> ELSE testCommandInput)
            /\ eventRefresh' = (IF outcome = "ok" THEN eventRefresh + 1 ELSE eventRefresh)
            /\ testBtn' = setLoading("test", FALSE)[1]
            /\ icon' = [icon EXCEPT !.test = setLoading("test", FALSE)[2]]
            /\ inflight' = Settled(i, outcome = "ok")
            /\ last' = DidNotify("testCommand", outcome, notice, "test", 1)
            /\ UNCHANGED <<statusSide, deviceSide, eventSide, startBtn, stopBtn,
                           eventFilter, modals, server>>

\* The timer of line 198 fires: loadEvents up to its fetch.
eventRefreshTimer ==
    /\ eventRefresh > 0
    /\ eventRefresh' = eventRefresh - 1
    /\ inflight' = Append(inflight, Req("events", "", "", "test", 0))
    /\ last' = Did("loadEvents", "issued", "", "", 0)
    /\ UNCHANGED <<statusSide, deviceSide, eventSide, buttons, testCommandInput,
                   eventFilter, modals, notifications, server>>

(***************************************************************************)
(* The device actions.  None of them touches a control of the page before  *)
(* its fetch.  After a successful response each awaits loadDevices.        *)
(***************************************************************************)
\* inflight after the fetch of a device action has settled
\* A variant that does not refresh the device list.
AfterDeviceActionOnly(i, outcome, action) == Settled(i, outcome = "ok")

AfterDeviceAction(i, outcome, action) ==
    IF outcome = "ok"
    THEN Append(Settled(i, TRUE), Req("devices", "", "", action, 1))
    ELSE Settled(i, FALSE)

\* What the settling run of a device action did: after a success the
\* action still awaits loadDevices.
DidDeviceAction(op, outcome, notice, action) ==
    IF outcome = "ok" THEN DidNotify(op, outcome, notice, "", 0)
    ELSE DidNotify(op, outcome, notice, action, 1)

\* The page offers a control that sends this action for this device: the
\* button of its card, or the buttons of the details modal.
Offers(id, action) ==
    \/ \E k \in 1..Len(devicesGrid) :
            devicesGrid[k].id = id /\ devicesGrid[k].control = action
    \/ deviceModal = id

controlDevice(deviceId, action) ==
    /\ Offers(deviceId, action)
    /\ CanFetch
    /\ inflight' = Append(inflight, Req("control", deviceId, action, "control", 0))
    /\ last' = Did("controlDevice", "issued", "", "", 0)
    /\ UNCHANGED <<view, server>>

controlDeviceSettled(i, outcome) ==
        LET r == inflight[i]
            notice == ActionNotice(r, outcome, r.body.message, "success",
                                   "Failed to control device")
        IN  /\ r.kind = "control"
            /\ CanSettle(r, outcome)
            /\ CanNotify
            /\ notifications' = showNotification(notifications, notice[1], notice[2])
            /\ inflight' = AfterDeviceAction(i, outcome, "control")
            /\ last' = DidDeviceAction("controlDevice", outcome, notice, "control")
            /\ UNCHANGED <<statusSide, deviceSide, eventSide, buttons, testCommandInput,
                           eventFilter, modals, eventRefresh, server>>

\* A click on a card opens the details of its device.
showDeviceDetails(deviceId) ==
    /\ \E k \in 1..Len(devicesGrid) : devicesGrid[k].id = deviceId
    /\ \E k \in 1..Len(devices) : devices[k].id = deviceId
    /\ deviceModal # deviceId
    /\ deviceModal' = deviceId
    /\ UNCHANGED <<statusSide, deviceSide, eventSide, buttons, testCommandInput,
                   eventFilter, addDeviceModal, notifications, eventRefresh,
                   inflight, server, last>>

hideDeviceModal ==
    /\ deviceModal # ""
    /\ deviceModal' = ""
    /\ UNCHANGED <<statusSide, deviceSide, eventSide, buttons, testCommandInput,
                   eventFilter, addDeviceModal, notifications, eventRefresh,
                   inflight, server, last>>

showAddDeviceModal ==
    /\ ~addDeviceModal
    /\ addDeviceModal' = TRUE
    /\ UNCHANGED <<statusSide, deviceSide, eventSide, buttons, testCommandInput,
                   eventFilter, deviceModal, notifications, eventRefresh,
                   inflight, server, last>>

hideAddDeviceModal ==
    /\ addDeviceModal
    /\ addDeviceModal' = FALSE
    /\ UNCHANGED <<statusSide, deviceSide, eventSide, buttons, testCommandInput,
                   eventFilter, deviceModal, notifications, eventRefresh,
                   inflight, server, last>>

\* The form is submitted with the fields of one of DeviceForms.
handleAddDevice(deviceId) ==
    /\ addDeviceModal
    /\ CanFetch
    /\ inflight' = Append(inflight, Req("add", deviceId, "", "add", 0))
    /\ last' = Did("handleAddDevice", "issued", "", "", 0)
    /\ UNCHANGED <<view, server>>

handleAddDeviceSettled(i, outcome) ==
        LET r == inflight[i]
            notice == ActionNotice(r, outcome, "Device added successfully", "success",
                                   "Failed to add device")
        IN  /\ r.kind = "add"
            /\ CanSettle(r, outcome)
            /\ CanNotify
            /\ notifications' = showNotification(notifications, notice[1], notice[2])
            /\ addDeviceModal' = (IF outcome = "ok" THEN FALSE ELSE addDeviceModal)
            /\ inflight' = AfterDeviceAction(i, outcome, "add")
            /\ last' = DidDeviceAction("handleAddDevice", outcome, notice, "add")
            /\ UNCHANGED <<statusSide, deviceSide, eventSide, buttons, testCommandInput,
                           eventFilter, deviceModal, eventRefresh, server>>

\* The remove button of the details modal; confirmed: the answer to confirm().
removeDevice(deviceId, confirmed) ==
    /\ deviceModal = deviceId
    /\ confirmed => CanFetch
    /\ inflight' = (IF confirmed
                    THEN Append(inflight, Req("remove", deviceId, "", "remove", 0))
                    ELSE inflight)
    /\ last' = (IF confirmed THEN Did("removeDevice", "issued", "", "", 0)
                ELSE Did("removeDevice", "declined", "", "remove", 0))
    /\ UNCHANGED <<view, server>>

removeDeviceSettled(i, outcome) ==
        LET r == inflight[i]
            notice == ActionNotice(r, outcome, "Device removed successfully", "success",
                                   "Failed to remove device")
        IN  /\ r.kind = "remove"
            /\ CanSettle(r, outcome)
            /\ CanNotify
            /\ notifications' = showNotification(notifications, notice[1], notice[2])
            /\ deviceModal' = (IF outcome = "ok" THEN "" ELSE deviceModal)
            /\ inflight' = AfterDeviceAction(i, outcome, "remove")
            /\ last' = DidDeviceAction("removeDevice", outcome, notice, "remove")
            /\ UNCHANGED <<statusSide, deviceSide, eventSide, buttons, testCommandInput,
                           eventFilter, addDeviceModal, eventRefresh, server>>

\* A change of one of the two device filters: filterDevices.
filterDevices(locationValue, typeValue) ==
    /\ \E k \in 1..Len(locationFilter.options) : locationFilter.options[k] = locationValue
    /\ \E k \in 1..Len(typeFilter.options) : typeFilter.options[k] = typeValue
    /\ (locationValue = locationFilter.value) # (typeValue = typeFilter.value)
    /\ locationFilter' = [locationFilter EXCEPT !.value = locationValue]
    /\ typeFilter' = [typeFilter EXCEPT !.value = typeValue]
    /\ devicesGrid' = renderDevices(devices, locationValue, typeValue)
    /\ last' = Did("filterDevices", "ok", "", "", 0)
    /\ UNCHANGED <<statusSide, devices, eventSide, buttons, testCommandInput,
                   eventFilter, modals, notifications, eventRefresh, inflight,
                   server>>

(***************************************************************************)
(* The activity log and the transcription view.                            *)
(***************************************************************************)
\* A change of the event filter: filterEvents.
filterEvents(value) ==
    /\ value # eventFilter
    /\ eventFilter' = value
    /\ activityLog' = renderEvents(events, value)
    /\ last' = Did("filterEvents", "ok", "", "", 0)
    /\ UNCHANGED <<statusSide, deviceSide, events, transcriptionDisplay, buttons,
                   testCommandInput, modals, notifications, eventRefresh, inflight,
                   server>>

\* The clear button of the transcription view.
clearTranscriptionClicked ==
    /\ transcriptionDisplay' = clearTranscription(isAssistantActive)
    /\ last' = Did("clearTranscription", "ok", "", "", 0)
    /\ UNCHANGED <<statusSide, deviceSide, events, activityLog, buttons,
                   testCommandInput, eventFilter, modals, notifications,
                   eventRefresh, inflight, server>>

clearEvents ==
    /\ CanFetch
    /\ inflight' = Append(inflight, Req("clear", "", "", "clear", 0))
    /\ last' = Did("clearEvents", "issued", "", "", 0)
    /\ UNCHANGED <<view, server>>

\* A variant that empties the list whatever the response.
eventsAfterClearAlways(outcome) == <<>>

\* this.events after the fetch of clearEvents has settled
eventsAfterClear(outcome) ==
    IF outcome = "ok" THEN <<>> ELSE events

clearEventsSettled(i, outcome) ==
        LET r == inflight[i]
            notice == ActionNotice(r, outcome, "Events cleared", "info",
                                   "Failed to clear events")
        IN  /\ r.kind = "clear"
            /\ CanSettle(r, outcome)
            /\ CanNotify
            /\ events' = eventsAfterClear(outcome)
            /\ activityLog' = (IF outcome = "ok" THEN renderEvents(events', eventFilter)
                               ELSE activityLog)
            /\ transcriptionDisplay' =
                (IF outcome = "ok" THEN clearTranscription(isAssistantActive)
                 ELSE transcriptionDisplay)
            /\ notifications' = showNotification(notifications, notice[1], notice[2])
            /\ inflight' = Settled(i, outcome = "ok")
            /\ last' = DidNotify("clearEvents", outcome, notice, "", 0)
            /\ UNCHANGED <<statusSide, deviceSide, buttons, testCommandInput,
                           eventFilter, modals, eventRefresh, server>>

(***************************************************************************)
(* The timers of a notification: 100 ms after it was added it gets class   *)
(* show, after 3 s it loses it, 300 ms later it is removed from the page.  *)
(***************************************************************************)
\* A variant whose last timer hides the element and leaves it on the page.
notificationTimerHides(k) ==
    /\ notifications[k].phase # "hiding"
    /\ notifications' =
        (IF notifications[k].phase = "added"
         THEN [notifications EXCEPT ![k].phase = "show"]
         ELSE [notifications EXCEPT ![k].phase = "hiding"])
    /\ UNCHANGED <<statusSide, deviceSide, eventSide, buttons, testCommandInput,
                   eventFilter, modals, eventRefresh, inflight, server, last>>

notificationTimer(k) ==
    /\ notifications' =
        (CASE notifications[k].phase = "added" ->
                [notifications EXCEPT ![k].phase = "show"]
           [] notifications[k].phase = "show" ->
                [notifications EXCEPT ![k].phase = "hiding"]
           [] OTHER -> RemoveAt(notifications, k))
    /\ UNCHANGED <<statusSide, deviceSide, eventSide, buttons, testCommandInput,
                   eventFilter, modals, eventRefresh, inflight, server, last>>

(***************************************************************************)
(* The specifications.  Spec is the whole client; the others are the       *)
(* parts of it the properties below are checked under.                     *)
(***************************************************************************)
PollsSettle ==
    \E i \in 1..Len(inflight), outcome \in Outcomes :
        \/ checkAssistantStatusSettled(i, outcome)
        \/ loadEventsSettled(i, outcome)
        \/ loadDevicesSettled(i, outcome)

Timers ==
    \/ eventTimer
    \/ statusTimer

StartStop ==
    \/ startAssistant
    \/ stopAssistant
    \/ \E i \in 1..Len(inflight), outcome \in Outcomes :
            \/ startAssistantSettled(i, outcome)
            \/ stopAssistantSettled(i, outcome)

TestAndLog ==
    \/ \E text \in CommandTexts : typeCommand(text)
    \/ \E via \in {"click", "enter"} : testCommand(via)
    \/ eventRefreshTimer
    \/ \E value \in EventTypes \cup {""} : filterEvents(value)
    \/ clearTranscriptionClicked
    \/ clearEvents
    \/ \E i \in 1..Len(inflight), outcome \in Outcomes :
            \/ testCommandSettled(i, outcome)
            \/ clearEventsSettled(i, outcome)

Filters ==
    \E l \in {"", "Bedroom", "Kitchen"}, t \in {"", "light", "fan"} :
        filterDevices(l, t)

\* The two modals, the details modal on the devices of ids.
Modals(ids) ==
    \/ \E id \in ids : showDeviceDetails(id)
    \/ hideDeviceModal
    \/ showAddDeviceModal
    \/ hideAddDeviceModal

\* The device actions, on the devices of ids.
DeviceActions(ids) ==
    \/ \E id \in ids, action \in ControlActions : controlDevice(id, action)
    \/ \E id \in ids : handleAddDevice(id)
    \/ \E id \in ids, confirmed \in BOOLEAN : removeDevice(id, confirmed)
    \/ \E i \in 1..Len(inflight), outcome \in Outcomes :
            \/ controlDeviceSettled(i, outcome)
            \/ handleAddDeviceSettled(i, outcome)
            \/ removeDeviceSettled(i, outcome)

notificationTimers ==
    \E k \in 1..Len(notifications) : notificationTimer(k)

Server ==
    \E i \in 1..Len(inflight) : Serve(i)

OtherClients ==
    \E id \in DeviceIds, action \in ControlActions \cup {"add", "remove"} :
        OtherClient(id, action)

Next ==
    \/ Timers
    \/ PollsSettle
    \/ loadDevices
    \/ StartStop
    \/ TestAndLog
    \/ Filters
    \/ Modals(DeviceIds)
    \/ DeviceActions(DeviceIds)
    \/ notificationTimers
    \/ Server
    \/ EngineChanges
    \/ EngineLogs
    \/ OtherClients

Spec == Init /\ [][Next]_vars

(***************************************************************************)
(* The polls alone, with the engine and other clients starting and         *)
(* stopping the assistant.                                                 *)
(***************************************************************************)
PollNext ==
    \/ Timers
    \/ PollsSettle
    \/ notificationTimers
    \/ Server
    \/ EngineChanges

PollSpec == Init /\ [][PollNext]_vars

(***************************************************************************)
(* The polls with the start and stop buttons.                              *)
(***************************************************************************)
StatusNext ==
    \/ PollNext
    \/ StartStop

StatusSpec == Init /\ [][StatusNext]_vars

(***************************************************************************)
(* The device list and its filters, with another client removing and       *)
(* adding the device of the kitchen.                                       *)
(***************************************************************************)
FilterNext ==
    \/ PollsSettle
    \/ loadDevices
    \/ Filters
    \/ notificationTimers
    \/ Server
    \/ \E action \in {"add", "remove"} : OtherClient("dev2", action)

FilterSpec == Init /\ [][FilterNext]_vars

(***************************************************************************)
(* The state in which loadInitialData has completed with three successful  *)
(* fetches, against a server that is active or not and holds the log.      *)
(***************************************************************************)
LoadedFrom(active, log) ==
    /\ isAssistantActive = active
    /\ devices = <<NewDevice("dev1"), NewDevice("dev2")>>
    /\ events = log
    /\ startBtn = active
    /\ stopBtn = ~active
    /\ testBtn = FALSE
    /\ icon = OriginalIcon
    /\ statusIndicator = (IF active THEN updateStatus("active", "Active")
                          ELSE updateStatus("offline", "Offline"))
    /\ testCommandInput = <<>>
    /\ locationFilter = updateFilters(devices)[1]
    /\ typeFilter = updateFilters(devices)[2]
    /\ eventFilter = ""
    /\ devicesGrid = renderDevices(devices, "", "")
    /\ activityLog = renderEvents(events, "")
    \* loadEvents ran before checkAssistantStatus set the flag
    /\ transcriptionDisplay = updateTranscription(events, FALSE)
    /\ deviceModal = ""
    /\ addDeviceModal = FALSE
    /\ notifications = <<>>
    /\ eventRefresh = 0
    /\ inflight = <<>>
    /\ serverActive = active
    /\ serverListening = FALSE
    /\ serverDevices = <<NewDevice("dev1"), NewDevice("dev2")>>
    /\ serverEvents = log
    /\ last = [Did("checkAssistantStatus", "ok", "", "", 0) EXCEPT !.info = "initial"]

Loaded == LoadedFrom(FALSE, <<>>)

(***************************************************************************)
(* The device actions on one device, after loadInitialData.                *)
(***************************************************************************)
ActionNext ==
    \/ \E i \in 1..Len(inflight), outcome \in Outcomes : loadDevicesSettled(i, outcome)
    \/ Modals({"dev1"})
    \/ DeviceActions({"dev1"})
    \/ notificationTimers
    \/ Server

ActionSpec == Loaded /\ [][ActionNext]_vars

(***************************************************************************)
(* The polls and the refresh button after loadInitialData has completed    *)
(* against a server that is active or not, with an empty log or not, and   *)
(* that stays as it is.                                                    *)
(***************************************************************************)
FrameInit ==
    \E active \in BOOLEAN, log \in EventLogs : LoadedFrom(active, log)

FrameNext ==
    \/ Timers
    \/ PollsSettle
    \/ loadDevices
    \/ notificationTimers
    \/ Server

FrameSpec == FrameInit /\ [][FrameNext]_vars

(***************************************************************************)
(* The two timers after loadInitialData has completed, with the engine     *)
(* changing the assistant's state.                                         *)
(***************************************************************************)
TimerPollsSettle ==
    \E i \in 1..Len(inflight), outcome \in Outcomes :
        \/ checkAssistantStatusSettled(i, outcome)
        \/ loadEventsSettled(i, outcome)

TimerNext ==
    \/ Timers
    \/ TimerPollsSettle
    \/ Server
    \/ EngineChanges

TimerSpec == Loaded /\ [][TimerNext]_vars

(***************************************************************************)
(* The polls alone with every timer, the server and every continuation     *)
(* taking its turn, while other clients change the registry.               *)
(***************************************************************************)
LiveNext ==
    \/ Timers
    \/ PollsSettle
    \/ notificationTimers
    \/ Server
    \/ \E action \in {"add", "remove"} : OtherClient("dev2", action)

LiveSpec ==
    /\ Init
    /\ [][LiveNext]_vars
    /\ WF_vars(eventTimer)
    /\ WF_vars(statusTimer)
    /\ WF_vars(Server)
    /\ WF_vars(PollsSettle)
    /\ WF_vars(notificationTimers)

(***************************************************************************)
(* The refresh button and the device filters after loadInitialData, with   *)
(* other clients adding and removing devices and one fetch of the devices  *)
(* at a time.                                                              *)
(***************************************************************************)
GridNext ==
    \/ inflight = <<>> /\ loadDevices
    \/ \E i \in 1..Len(inflight), outcome \in Outcomes : loadDevicesSettled(i, outcome)
    \/ Filters
    \/ notificationTimers
    \/ Server
    \/ \E id \in DeviceIds, action \in {"add", "remove"} : OtherClient(id, action)

GridSpec == Loaded /\ [][GridNext]_vars

(***************************************************************************)
(* The same, with the timers of the notifications firing.                  *)
(***************************************************************************)
NoticeSpec == Loaded /\ [][GridNext]_vars /\ WF_vars(notificationTimers)

(***************************************************************************)
(* The user actions that refresh a collection, after loadInitialData: the  *)
(* device actions on one device and the test command.  The user acts when  *)
(* the page is calm: nothing in flight, no timer pending, no notification  *)
(* on the page.                                                            *)
(***************************************************************************)
Calm == inflight = <<>> /\ eventRefresh = 0 /\ notifications = <<>>

RefreshNext ==
    \/ Calm /\ \E action \in ControlActions : controlDevice("dev1", action)
    \/ Calm /\ handleAddDevice("dev1")
    \/ Calm /\ \E confirmed \in BOOLEAN : removeDevice("dev1", confirmed)
    \/ Calm /\ \E via \in {"click", "enter"} : testCommand(via)
    \/ Calm /\ \E text \in CommandTexts : typeCommand(text)
    \/ Calm /\ Modals({"dev1"})
    \/ eventRefreshTimer
    \/ \E i \in 1..Len(inflight), outcome \in Outcomes :
            \/ controlDeviceSettled(i, outcome)
            \/ handleAddDeviceSettled(i, outcome)
            \/ removeDeviceSettled(i, outcome)
            \/ testCommandSettled(i, outcome)
            \/ loadDevicesSettled(i, outcome)
            \/ loadEventsSettled(i, outcome)
    \/ notificationTimers
    \/ Server

RefreshSpec == Loaded /\ [][RefreshNext]_vars

(***************************************************************************)
(* The event timer and the event filter while the assistant is active and  *)
(* the log of the server is long, with one fetch of the events at a time.  *)
(***************************************************************************)
RenderInit == \E log \in LongLogs : LoadedFrom(TRUE, log)

RenderNext ==
    \/ inflight = <<>> /\ eventTimer
    \/ \E i \in 1..Len(inflight), outcome \in Outcomes : loadEventsSettled(i, outcome)
    \/ \E value \in EventTypes \cup {""} : filterEvents(value)
    \/ Server
    \/ EngineLogsLong

RenderSpec == RenderInit /\ [][RenderNext]_vars

(***************************************************************************)
(* The timers with the start and stop buttons, after loadInitialData, on   *)
(* a network that answers every poll and never answers a start or a stop:  *)
(* the timers keep firing, the server serves what it receives, and the     *)
(* responses of the polls are delivered.  The code has no handler that     *)
(* runs when a fetch has been pending for some time.                       *)
(***************************************************************************)
\* A fetch more leaves room for the fetch of a timer.
RoomForPolls == Len(inflight) + 1 < MaxInFlight

HangNext ==
    \/ Timers
    \/ TimerPollsSettle
    \/ RoomForPolls /\ startAssistant
    \/ RoomForPolls /\ stopAssistant
    \/ Server
    \/ EngineChanges

HangSpec ==
    /\ Loaded
    /\ [][HangNext]_vars
    /\ WF_vars(eventTimer)
    /\ WF_vars(statusTimer)
    /\ WF_vars(TimerPollsSettle)
    /\ WF_vars(Server)

(***************************************************************************)
(* The start and stop buttons with the status poll, while the engine       *)
(* changes the assistant's state by itself.                                *)
(***************************************************************************)
\* A new fetch starts once the notifications of earlier ones have gone.
Quiet == notifications = <<>>

SwitchNext ==
    \/ Quiet /\ statusTimer
    \/ \E i \in 1..Len(inflight), outcome \in Outcomes :
            checkAssistantStatusSettled(i, outcome)
    \/ Quiet /\ startAssistant
    \/ Quiet /\ stopAssistant
    \/ \E i \in 1..Len(inflight), outcome \in Outcomes :
            \/ startAssistantSettled(i, outcome)
            \/ stopAssistantSettled(i, outcome)
    \/ notificationTimers
    \/ Server
    \/ EngineChanges

SwitchSpec == Loaded /\ [][SwitchNext]_vars

(***************************************************************************)
(* The refresh button and the event poll of an active assistant, on a page *)
(* that holds two devices and three events, while other clients change the *)
(* registry and the engine changes the log.                                *)
(***************************************************************************)
SnapshotInit == \E log \in EventLogs : Len(log) = 3 /\ LoadedFrom(TRUE, log)

SnapshotNext ==
    \/ Quiet /\ loadDevices
    \/ Quiet /\ eventTimer
    \/ \E i \in 1..Len(inflight), outcome \in Outcomes :
            \/ loadDevicesSettled(i, outcome)
            \/ loadEventsSettled(i, outcome)
    \/ notificationTimers
    \/ Server
    \/ EngineLogs
    \/ \E action \in {"add", "remove"} : OtherClient("dev2", action)

SnapshotSpec == SnapshotInit /\ [][SnapshotNext]_vars

(***************************************************************************)
(* The clear button of the activity log on a page that holds three events, *)
(* with the event poll, the event filter and the engine writing the log.   *)
(***************************************************************************)
ClearNext ==
    \/ Quiet /\ clearEvents
    \/ Quiet /\ eventTimer
    \/ \E i \in 1..Len(inflight), outcome \in Outcomes :
            \/ clearEventsSettled(i, outcome)
            \/ loadEventsSettled(i, outcome)
    \/ \E value \in EventTypes \cup {""} : filterEvents(value)
    \/ notificationTimers
    \/ Server
    \/ EngineLogs

ClearSpec == SnapshotInit /\ [][ClearNext]_vars

(***************************************************************************)
(* Properties.                                                             *)
(***************************************************************************)
\* C1: when the fetch of loadDevices, of loadEvents or of
\* checkAssistantStatus fails, the run that handles the failure leaves the
\* device list, the event list and isAssistantActive as they were.
C1_FailedPollKeepsState ==
    [][\A i \in 1..Len(inflight) :
            (\/ loadDevicesSettled(i, "failed")
             \/ loadEventsSettled(i, "failed")
             \/ checkAssistantStatusSettled(i, "failed"))
            => UNCHANGED <<devices, events, isAssistantActive>>]_vars

\* A device-list fetch has just failed in a client that holds devices,
\* events and an active assistant.
C1_Witness ==
    /\ last.op = "loadDevices"
    /\ last.outcome = "failed"
    /\ devices # <<>>
    /\ events # <<>>
    /\ isAssistantActive

\* C2: a response of a status, events or devices fetch that arrives after
\* the response of a request of the same collection issued later has been
\* applied is ignored: it does not change what the view holds.
C2_StaleResponseIgnored ==
    [][\A i \in 1..Len(inflight) :
            inflight[i].superseded =>
                /\ checkAssistantStatusSettled(i, "ok") => UNCHANGED isAssistantActive
                /\ loadEventsSettled(i, "ok") => UNCHANGED events
                /\ loadDevicesSettled(i, "ok") => UNCHANGED devices]_vars

\* C3: a successful loadDevices that follows a successful loadDevices, with
\* the same snapshot and no other handler of the client in between, changes
\* neither the device list, nor the filters, nor the rendered grid.
C3_ReconcileIdempotent ==
    [][\A i \in 1..Len(inflight) :
            (/\ last.op = "loadDevices"
             /\ last.outcome = "ok"
             /\ inflight[i].body.devices = devices
             /\ loadDevicesSettled(i, "ok"))
            => UNCHANGED <<devices, locationFilter, typeFilter, devicesGrid>>]_vars

\* The value a select keeps under the rule of C4.
Preserved(before, after) ==
    IF before.value \in Range(after.options) THEN before.value ELSE ""

\* C4: a successful loadDevices keeps the selected location and the selected
\* device type when the new device set still has them, and resets the
\* selection to "show all" only when it has not.
C4_FilterSelectionPreserved ==
    [][\A i \in 1..Len(inflight) :
            loadDevicesSettled(i, "ok") =>
                /\ locationFilter'.value = Preserved(locationFilter, locationFilter')
                /\ typeFilter'.value = Preserved(typeFilter, typeFilter')]_vars

\* C5: a user action that has completed has produced exactly one
\* notification.
C5_OneNotificationPerAction ==
    last.action \in UserActions => last.notes = 1

\* C6: a run that handles a failed fetch or a success: false response shows
\* a notification of type error.
C6_FailureNotified ==
    last.outcome \in {"failed", "rejected"} => last.shown = "error"

\* A fetch of the device list is in flight.
DevicesFetchInFlight == \E i \in 1..Len(inflight) : inflight[i].kind = "devices"

\* C7: fetches of the device list are issued again and again, so that a local
\* device set that differs from the registry leads to a fetch of the list.
C7_DevicesPolled ==
    /\ []<>DevicesFetchInFlight
    /\ (devices # serverDevices) ~> DevicesFetchInFlight

\* C8: a tick of the event timer issues an events fetch exactly when
\* isAssistantActive is true, and a tick of the status timer issues a
\* status fetch.
C8_TimersPoll ==
    [][/\ eventTimer =>
            IF isAssistantActive
            THEN inflight' = Append(inflight, Req("events", "", "", "timer", 0))
            ELSE inflight' = inflight
       /\ statusTimer =>
            inflight' = Append(inflight, Req("status", "", "", "timer", 0))]_vars

\* The event timer has just skipped a tick while a fetch it issued at an
\* earlier tick, when the assistant was active, is still in flight.
C8_Witness ==
    /\ last.op = "eventTimer"
    /\ last.outcome = "skipped"
    /\ ~isAssistantActive
    /\ \E i \in 1..Len(inflight) :
            inflight[i].kind = "events" /\ inflight[i].parent = "timer"

\* C9: when the status fetch of a timer tick succeeds and the server's
\* active state has not changed since the tick, isAssistantActive equals
\* the server's state and the event timer polls exactly when it is active.
C9_DriftCorrected ==
    [][\A i \in 1..Len(inflight) :
            (/\ inflight[i].parent = "timer"
             /\ inflight[i].stable
             /\ checkAssistantStatusSettled(i, "ok"))
            => /\ isAssistantActive' = serverActive'
               /\ eventTimerPolls' = serverActive']_vars

\* A status fetch of the timer has just corrected a flag that differed
\* from the server's state.
C9_Witness ==
    /\ last.op = "checkAssistantStatus"
    /\ last.outcome = "ok"
    /\ last.info = "drift"
    /\ isAssistantActive = serverActive

\* C10: while the request of a user action is in flight its control is
\* disabled, and no second request of the same action is in flight.
C10_ControlDisabledInFlight ==
    \A i \in 1..Len(inflight) :
        /\ inflight[i].kind = "start" => startBtn
        /\ inflight[i].kind = "stop" => stopBtn
        /\ inflight[i].kind = "test" => testBtn
        /\ \A j \in 1..Len(inflight) :
                (inflight[i].kind \in UserActions /\ inflight[j].kind = inflight[i].kind)
                => i = j

\* A fetch of this kind is in flight.
InFlight(kind) == \E i \in 1..Len(inflight) : inflight[i].kind = kind

\* C11: a start or stop request that receives no response is eventually
\* settled all the same, and the button that sent it gets its icon back.
C11_FetchesTimeOut ==
    \A kind \in {"start", "stop"} :
        InFlight(kind) ~> (~InFlight(kind) /\ icon[kind] = OriginalIcon[kind])

\* The events of a list that are transcriptions, in the order of the list.
Transcriptions(list) ==
    SelectSeq(list, LAMBDA e : e.type \in {"transcription_partial", "transcription_final"})

\* The elements of the transcription view that are items, not the placeholder.
ItemsShown(display) == SelectSeq(display, LAMBDA x : x.class # "placeholder")

\* C12: after a successful loadEvents the transcription view holds at most
\* 10 items, and they are the last 10 transcription events of the fetched
\* list (all of them when there are fewer), in the order of the list.
C12_TranscriptionLastTen ==
    [][\A i \in 1..Len(inflight) :
            loadEventsSettled(i, "ok") =>
                LET fetched == Transcriptions(inflight[i].body.events)
                    items == ItemsShown(transcriptionDisplay')
                    skipped == IF Len(fetched) > 10 THEN Len(fetched) - 10 ELSE 0
                IN  /\ Len(items) <= 10
                    /\ Len(items) = Len(fetched) - skipped
                    /\ \A k \in 1..Len(items) :
                            /\ items[k].timestamp = DateOf(fetched[skipped + k].timestamp)
                            /\ items[k].text = fetched[skipped + k].message]_vars

\* A successful loadEvents has just shown 10 of more than 10 transcriptions.
C12_Witness ==
    /\ last.op = "loadEvents"
    /\ last.outcome = "ok"
    /\ Len(Transcriptions(events)) > 10
    /\ Len(ItemsShown(transcriptionDisplay)) = 10

\* The events of a list that the filter selects, in the order of the list.
Matching(list, filter) ==
    SelectSeq(list, LAMBDA e : filter = "" \/ e.type = filter)

\* The elements of the activity log that are items, not the placeholder.
ActivityShown(log) == SelectSeq(log, LAMBDA x : x.class = "activity-item")

\* C13: the activity log shows exactly the events of the fetched list that
\* match the selected event type (all events when none is selected), each
\* once and in the order of the list.
C13_ActivityLogInOrder ==
    LET matching == Matching(events, eventFilter)
        items == ActivityShown(activityLog)
    IN  /\ Len(items) = Len(matching)
        /\ \A k \in 1..Len(items) :
                /\ items[k].type = matching[k].type
                /\ items[k].timestamp = DateOf(matching[k].timestamp)
                /\ items[k].message = matching[k].message

\* A successful loadEvents has just rendered, under a selected type, a list
\* in which several events match and some do not.
C13_Witness ==
    /\ last.op = "loadEvents"
    /\ last.outcome = "ok"
    /\ eventFilter # ""
    /\ Len(ActivityShown(activityLog)) > 1
    /\ Len(ActivityShown(activityLog)) < Len(events)

\* C14: for the device list of every state, getFilteredDevices with a
\* non-empty location that no device of the list has returns the empty list,
\* whatever the device type selected.
C14_AbsentLocationEmpty ==
    \A L \in {"Bedroom", "Kitchen", "Garage"}, T \in {"", "light", "fan"} :
        (\A k \in 1..Len(devices) : devices[k].location # L)
        => getFilteredDevices(devices, L, T) = <<>>

\* A successful loadDevices has just rendered a list that has devices, none
\* of them at the selected location: the grid shows no device.
C14_Witness ==
    /\ last.op = "loadDevices"
    /\ last.outcome = "ok"
    /\ devices # <<>>
    /\ \A k \in 1..Len(devices) : devices[k].location # "Kitchen"
    /\ devicesGrid = <<NoDevices>>

\* C15: after a successful status fetch the indicator reads "Listening..."
\* for an active, listening assistant, "Active" for an active one that does
\* not listen and "Offline" for an inactive one; the start button is
\* disabled and the stop button enabled exactly when the snapshot is active;
\* and isAssistantActive equals is_active.
C15_StatusShown ==
    [][\A i \in 1..Len(inflight) :
            checkAssistantStatusSettled(i, "ok") =>
                LET status == inflight[i].body
                IN  /\ statusIndicator'.text =
                            (IF ~status.is_active THEN "Offline"
                             ELSE IF status.is_listening THEN "Listening..."
                             ELSE "Active")
                    /\ startBtn' = status.is_active
                    /\ stopBtn' = ~status.is_active
                    /\ isAssistantActive' = status.is_active]_vars

\* A status fetch has just shown a listening assistant.
C15_Witness ==
    /\ last.op = "checkAssistantStatus"
    /\ last.outcome = "ok"
    /\ statusIndicator.text = "Listening..."
    /\ isAssistantActive
    /\ startBtn
    /\ ~stopBtn

\* The run has issued this fetch and no other.
Issued(i, request) == inflight' = Append(RemoveAt(inflight, i), request)

\* The run has issued no fetch.
IssuedNone(i) == inflight' = RemoveAt(inflight, i)

\* C16: the run that handles a successful response of controlDevice,
\* handleAddDevice or removeDevice issues a fetch of the device list, which the
\* action awaits; the run that handles a successful response of testCommand
\* issues no fetch and sets a timer, and the timer issues a fetch of the
\* events; the run that handles success: false or a failure issues no fetch
\* and sets no timer.
C16_RefreshAfterAction ==
    [][/\ \A i \in 1..Len(inflight) :
            /\ controlDeviceSettled(i, "ok")
                    => Issued(i, Req("devices", "", "", "control", 1)) /\ last'.action = ""
            /\ handleAddDeviceSettled(i, "ok")
                    => Issued(i, Req("devices", "", "", "add", 1)) /\ last'.action = ""
            /\ removeDeviceSettled(i, "ok")
                    => Issued(i, Req("devices", "", "", "remove", 1)) /\ last'.action = ""
            /\ testCommandSettled(i, "ok")
                    => IssuedNone(i) /\ eventRefresh' = eventRefresh + 1
            /\ \A outcome \in {"rejected", "failed"} :
                    (\/ controlDeviceSettled(i, outcome)
                     \/ handleAddDeviceSettled(i, outcome)
                     \/ removeDeviceSettled(i, outcome)
                     \/ testCommandSettled(i, outcome))
                    => IssuedNone(i) /\ eventRefresh' = eventRefresh
       /\ eventRefreshTimer =>
            /\ inflight' = Append(inflight, Req("events", "", "", "test", 0))
            /\ eventRefresh' = eventRefresh - 1]_vars

\* A device has just been removed with success and the fetch of the device
\* list that the action awaits is in flight.
C16_Witness ==
    /\ last.op = "removeDevice"
    /\ last.outcome = "ok"
    /\ inflight = <<Req("devices", "", "", "remove", 1)>>

\* The timers of element k have moved it one phase on, or have removed it
\* at the end of its last phase, and have left every other element alone.
TimerOf(k) ==
    \/ /\ notifications[k].phase = "hiding"
       /\ notifications' = RemoveAt(notifications, k)
    \/ /\ notifications[k].phase # "hiding"
       /\ Len(notifications') = Len(notifications)
       /\ \A j \in 1..Len(notifications) :
                j # k => notifications'[j] = notifications[j]

CountId(list, id) == Cardinality({ k \in 1..Len(list) : list[k].id = id })

\* C18: when the fetch of the device list that a successful add of a device
\* awaits succeeds, the local list holds exactly one record of the device;
\* when the one that a successful removal awaits succeeds, it holds none.
\* No other client acts, and the user starts one action at a time.
C18_AddRemoveThenFetch ==
    [][\A i \in 1..Len(inflight) :
            loadDevicesSettled(i, "ok") =>
                /\ inflight[i].parent = "add" => CountId(devices', "dev1") = 1
                /\ inflight[i].parent = "remove" => CountId(devices', "dev1") = 0]_vars

\* The device has been removed and added again, and the fetch the add
\* awaited has delivered it.
C18_Witness ==
    /\ last.op = "loadDevices"
    /\ last.outcome = "ok"
    /\ last.action = "add"
    /\ CountId(devices, "dev1") = 1

\* C19: a start or stop answered with success: false leaves
\* isAssistantActive and the status indicator as they were and shows the
\* message of the response as an error; isAssistantActive turns true only by
\* a successful start or a status snapshot that is active, and false only by
\* a successful stop or a status snapshot that is not.
C19_SuccessIsAuthoritative ==
    [][/\ \A i \in 1..Len(inflight) :
            (startAssistantSettled(i, "rejected") \/ stopAssistantSettled(i, "rejected")) =>
                /\ UNCHANGED <<isAssistantActive, statusIndicator>>
                /\ last'.shown = "error"
                /\ last'.message = Response(inflight[i], "rejected").message
                /\ notifications' # <<>>
                /\ notifications'[Len(notifications')].type = "error"
       /\ (~isAssistantActive /\ isAssistantActive') =>
            \E i \in 1..Len(inflight) :
                \/ startAssistantSettled(i, "ok")
                \/ checkAssistantStatusSettled(i, "ok") /\ inflight[i].body.is_active
       /\ (isAssistantActive /\ ~isAssistantActive') =>
            \E i \in 1..Len(inflight) :
                \/ stopAssistantSettled(i, "ok")
                \/ checkAssistantStatusSettled(i, "ok") /\ ~inflight[i].body.is_active]_vars

\* A stop has been refused while the assistant was active, and the flag
\* and the indicator still say so.
C19_Witness ==
    /\ last.op = "stopAssistant"
    /\ last.outcome = "rejected"
    /\ last.message = "refused"
    /\ isAssistantActive
    /\ statusIndicator.className # "offline"

\* C20: a successful loadDevices leaves as the local devices exactly the
\* records of the fetched snapshot, each once, and a successful loadEvents
\* leaves as the local events exactly the fetched list: no record of the
\* previous snapshot stays unless the new one holds it.
C20_SnapshotReplaces ==
    [][\A i \in 1..Len(inflight) :
            /\ loadDevicesSettled(i, "ok") =>
                    /\ Range(devices') = Range(inflight[i].body.devices)
                    /\ Len(devices') = Len(inflight[i].body.devices)
                    /\ \A d \in Range(devices) \ Range(inflight[i].body.devices) :
                            d \notin Range(devices')
            /\ loadEventsSettled(i, "ok") =>
                    /\ events' = inflight[i].body.events
                    /\ Len(events') = Len(inflight[i].body.events)]_vars

\* The page began with two devices and three events; a fetch has since
\* delivered a registry without the second device and the last one an
\* empty log, and the page holds neither.
C20_Witness ==
    /\ last.op = "loadEvents"
    /\ last.outcome = "ok"
    /\ events = <<>>
    /\ CountId(devices, "dev2") = 0
    /\ CountId(devices, "dev1") = 1

\* C21: a test command whose text is empty or only spaces issues no
\* request and shows one warning; the devices, the events, isAssistantActive
\* and the disabled state of the test button stay as they were.
C21_EmptyCommandRefused ==
    [][\A via \in {"click", "enter"} :
            (Range(testCommandInput) \subseteq {" "} /\ testCommand(via)) =>
                /\ inflight' = inflight
                /\ Len(notifications') = Len(notifications) + 1
                /\ notifications'[Len(notifications')].type = "warning"
                /\ SubSeq(notifications', 1, Len(notifications)) = notifications
                /\ UNCHANGED <<devices, events, isAssistantActive, testBtn>>]_vars

\* The input held a space alone when the command was tested.
C21_Witness ==
    /\ last.op = "testCommand"
    /\ last.outcome = "invalid"
    /\ last.shown = "warning"
    /\ testCommandInput = <<" ">>
    /\ inflight = <<>>

\* C22: when startAssistant completes with a successful response the start
\* button is disabled and the stop button enabled; when stopAssistant
\* completes with a successful response the start button is enabled and the
\* stop button disabled.
C22_ButtonsFollowAction ==
    [][\A i \in 1..Len(inflight) :
            /\ startAssistantSettled(i, "ok") => (startBtn' /\ ~stopBtn')
            /\ stopAssistantSettled(i, "ok") => (~startBtn' /\ stopBtn')]_vars

\* C23: between the runs of the handlers the device grid shows the devices
\* of the local list that match the location and the device type selected
\* in the two filters.
C23_GridMatchesFilters ==
    devicesGrid = renderDevices(devices, locationFilter.value, typeFilter.value)

\* C24: when clearEvents gets a successful response the local event list
\* is empty and the activity log shows the empty state; when the response
\* says success: false or the fetch fails, both stay as they were.
C24_ClearEvents ==
    [][\A i \in 1..Len(inflight) :
            /\ clearEventsSettled(i, "ok") =>
                    (events' = <<>> /\ activityLog' = <<NoEvents>>)
            /\ (clearEventsSettled(i, "rejected") \/ clearEventsSettled(i, "failed")) =>
                    UNCHANGED <<events, activityLog>>]_vars

\* A clear has failed and the page still holds its three events.
C24_Witness ==
    /\ last.op = "clearEvents"
    /\ last.outcome \in {"rejected", "failed"}
    /\ Len(events) = 3
    /\ activityLog # <<NoEvents>>

\* The texts of the placeholders of updateTranscription and
\* clearTranscription, by the state of the assistant they speak of.
WaitingTexts ==
    { "Waiting for voice input...",
      "Transcription cleared. Waiting for voice input..." }
InactiveTexts ==
    { "Voice assistant is not active. Start the assistant to see transcriptions.",
      "Transcription cleared. Start the assistant to see transcriptions." }

\* C25: between the runs of the handlers a placeholder in the transcription
\* view agrees with isAssistantActive: it says "Waiting for voice input..."
\* only while the flag is true, and that the assistant is to be started only
\* while the flag is false.
C25_PlaceholderAgrees ==
    \A k \in 1..Len(transcriptionDisplay) :
        transcriptionDisplay[k].class = "placeholder" =>
            /\ transcriptionDisplay[k].text \in WaitingTexts => isAssistantActive
            /\ transcriptionDisplay[k].text \in InactiveTexts => ~isAssistantActive

====
